---- MODULE Spec2Model ----
(***************************************************************************)
(* Model of the log checker of tcglog-parser (package tcglog, check.go):   *)
(* checkLog pulls events from a decoded TCG event log and accumulates a    *)
(* LogCheckReport of placement, structure and digest anomalies.            *)
(*                                                                         *)
(* A byte slice is a sequence of integers 0..255.  A digest is a record    *)
(* [kind, alg, data]: the hash functions are modelled as collision-free    *)
(* (hash(d, a) is the record naming d and a), so two digests are equal     *)
(* exactly when they were computed by the same algorithm over the same     *)
(* bytes, or are the same constant.                                        *)
(***************************************************************************)
EXTENDS Integers, Sequences, FiniteSets, TLC

VARIABLES
    logSpec,    \* log.Spec of the log being checked
    byteOrder,  \* log.byteOrder: "LE" or "BE"
    native,     \* byte order of the machine running checkLog
    algs,       \* the algorithms the log header declares
    options,    \* LogCheckOptions passed to checkLog
    stream,     \* "open", or what the pull that answered with no event signalled
    pulled,     \* the pulls nextEventInternal has answered with an event
    ranges,     \* per pulled event, the orders its ranges over Digests took
    report,     \* report.Entries of the running call
    ret,        \* what checkLog returned, or that it is running / panicked
    second,     \* the events a second call of checkLog was given
    report2     \* report.Entries of that second call

vars ==
    <<logSpec, byteOrder, native, algs, options, stream, pulled, ranges, report, ret,
      second, report2>>

(* ------------------------------ bounds -------------------------------- *)

\* longest log the driver specification pulls
MaxEvents == 2
\* largest PCR index of the placement matrix (indices above 7 are unconstrained)
MaxPCRIndex == 9

(* --------------------------- the data model --------------------------- *)

Nil == "nil"

AlgorithmSha1 == "sha1"
AlgorithmSha256 == "sha256"
AlgorithmSha384 == "sha384"
AlgorithmSha512 == "sha512"

Algorithms == {AlgorithmSha1, AlgorithmSha256, AlgorithmSha384, AlgorithmSha512}

SpecPCClient == 1
SpecEFI_1_2 == 2
SpecEFI_2 == 3

Specs == {SpecPCClient, SpecEFI_1_2, SpecEFI_2}

EventTypes ==
    {"PrebootCert", "PostCode", "Unused", "NoAction", "Separator", "Action",
     "EventTag", "SCRTMContents", "SCRTMVersion", "CPUMicrocode",
     "PlatformConfigFlags", "TableOfDevices", "CompactHash", "IPL",
     "IPLPartitionData", "NonhostCode", "NonhostConfig", "NonhostInfo",
     "OmitBootDeviceEvents", "EFIVariableDriverConfig", "EFIVariableBoot",
     "EFIBootServicesApplication", "EFIBootServicesDriver",
     "EFIRuntimeServicesDriver", "EFIGPTEvent", "EFIAction",
     "EFIPlatformFirmwareBlob", "EFIHandoffTables", "EFIHCRTMEvent",
     "EFIVariableAuthority"}

\* the bytes of the two literals checkEventData compares payloads with
BootAttemptsOmitted ==
    <<66, 79, 79, 84, 32, 65, 84, 84, 69, 77, 80, 84, 83, 32, 79, 77, 73, 84, 84, 69, 68>>
HCRTM == <<72, 67, 82, 84, 77>>

\* A uint32 is the sequence of its four bytes, most significant first (the
\* model checker's integers are narrower than 32 bits unsigned).
Uint32(n) ==
    <<(n \div 16777216) % 256, (n \div 65536) % 256, (n \div 256) % 256, n % 256>>

separatorEventErrorValue == 1
MaxUint32 == <<255, 255, 255, 255>>
separatorEventNormalValues == <<Uint32(0), MaxUint32>>

\* binary.ByteOrder.PutUint32 of the uint32 w into a fresh 4-byte slice
PutUint32(order, w) ==
    IF order = "LE" THEN <<w[4], w[3], w[2], w[1]>> ELSE w

\* *(*uint32)(unsafe.Pointer(&b[0])): the machine's own reading of 4 bytes
NativeUint32(b, machine) ==
    IF machine = "LE" THEN <<b[4], b[3], b[2], b[1]>> ELSE <<b[1], b[2], b[3], b[4]>>

\* the all-zero digest of an algorithm's length
ZeroDigest(alg) == [kind |-> "zero", alg |-> alg, data |-> <<>>]
zeroDigests == [alg \in Algorithms |-> ZeroDigest(alg)]

\* a digest that is neither all-zero nor the hash of anything in the model
OtherDigest(alg, n) == [kind |-> "other", alg |-> alg, data |-> <<n>>]

\* the four hash functions; a result is [panic, val]
hash(data, alg) ==
    IF alg \in Algorithms
    THEN [panic |-> FALSE, val |-> [kind |-> "hash", alg |-> alg, data |-> data]]
    ELSE [panic |-> TRUE, val |-> Nil]

Hashed(data, alg) == hash(data, alg).val

(* ------------------------- event payloads ----------------------------- *)
\* Data.Bytes() is the full encoded form; field is the variant's own
\* sub-field (VariableData, cmdline, cmd), empty for the other variants.

OpaqueData(b) == [variant |-> "opaque", bytes |-> b, field |-> <<>>]
AsciiData(b) == [variant |-> "ascii", bytes |-> b, field |-> <<>>]
EFIVariableData(header, value) ==
    [variant |-> "efivariable", bytes |-> header \o value, field |-> value]
EFIGPTData(b) == [variant |-> "efigpt", bytes |-> b, field |-> <<>>]
KernelCmdlineData(prefix, cmdline) ==
    [variant |-> "kernelcmdline", bytes |-> prefix \o cmdline, field |-> cmdline]
GrubCmdData(prefix, cmd) ==
    [variant |-> "grubcmd", bytes |-> prefix \o cmd, field |-> cmd]
StubData(b) == [variant |-> "systemdstub", bytes |-> b, field |-> <<>>]

(* --------------------------- the checks ------------------------------- *)
\* A range over event.Digests starts at a key the runtime picks: `first` is
\* the key a one-step range visits (Nil for an empty map) and `perm` the
\* order in which a full range visits the keys.

Perms(S) ==
    {p \in [1..Cardinality(S) -> S] : \A a \in S : \E k \in DOMAIN p : p[k] = a}

Firsts(S) == IF S = {} THEN {Nil} ELSE S

isSeparatorEventError(event, order, first) ==
    IF event.EventType # "Separator"
    THEN [panic |-> TRUE, val |-> FALSE]
    ELSE LET errorValue == PutUint32(order, Uint32(separatorEventErrorValue))
         IN  IF first = Nil
             THEN [panic |-> FALSE, val |-> FALSE]
             ELSE LET h == hash(errorValue, first)
                  IN  IF h.panic
                      THEN [panic |-> TRUE, val |-> FALSE]
                      ELSE [panic |-> FALSE,
                            val |-> event.Digests[first] = h.val]

\* the switch of isExpectedEventTypeForIndex, reached for i <= 7
expectedBySwitch(t, i, spec) ==
         CASE t \in {"PostCode", "SCRTMContents", "SCRTMVersion", "NonhostCode",
                     "NonhostInfo", "EFIHCRTMEvent"} -> i = 0
           [] t = "NoAction" -> i = 0 \/ i = 6
           [] t \in {"Action", "EFIAction"} -> i >= 1 /\ i <= 6
           [] t = "EventTag" -> i <= 4 /\ spec <= SpecPCClient
           [] t \in {"CPUMicrocode", "PlatformConfigFlags", "TableOfDevices",
                     "NonhostConfig", "EFIVariableBoot", "EFIHandoffTables"} -> i = 1
           [] t = "CompactHash" -> i >= 4
           [] t = "IPL" -> i = 4 /\ spec <= SpecPCClient
           [] t = "IPLPartitionData" -> i = 5 /\ spec <= SpecPCClient
           [] t = "OmitBootDeviceEvents" -> i = 4
           [] t = "EFIVariableDriverConfig" -> i = 1 \/ i = 3 \/ i = 5 \/ i = 7
           [] t = "EFIBootServicesApplication" -> i = 2 \/ i = 4
           [] t \in {"EFIBootServicesDriver", "EFIRuntimeServicesDriver"} -> i = 0 \/ i = 2
           [] t = "EFIGPTEvent" -> i = 5
           [] t = "EFIPlatformFirmwareBlob" -> i = 0 \/ i = 2 \/ i = 4
           [] t = "EFIVariableAuthority" -> i = 7
           [] OTHER -> TRUE

\* faulty variant: index 7 is taken for an unconstrained index
isExpectedEventTypeForIndexFrom7(t, i, spec) ==
    IF i >= 7 THEN TRUE ELSE expectedBySwitch(t, i, spec)

isExpectedEventTypeForIndex(t, i, spec) ==
    IF i > 7 THEN TRUE ELSE expectedBySwitch(t, i, spec)

\* the read of a uint32 at &b[0]: outside a 4-byte slice it leaves the slice
ReadUint32(b, machine) ==
    IF Len(b) < 4
    THEN [panic |-> TRUE, val |-> Uint32(0)]
    ELSE [panic |-> FALSE, val |-> NativeUint32(b, machine)]

\* a result is [panic, err], err = Nil for a well-formed payload
\* faulty variant: the payload is read without its size having been checked
checkSeparatorDataUnsized(event, order, machine, first) ==
    LET e == isSeparatorEventError(event, order, first)
        v == ReadUint32(event.Data.bytes, machine)
    IN  IF e.panic THEN [panic |-> TRUE, err |-> Nil]
        ELSE IF e.val THEN [panic |-> FALSE, err |-> Nil]
        ELSE IF v.panic THEN [panic |-> TRUE, err |-> Nil]
        ELSE IF \E k \in DOMAIN separatorEventNormalValues :
                    separatorEventNormalValues[k] = v.val
        THEN [panic |-> FALSE, err |-> Nil]
        ELSE [panic |-> FALSE, err |-> "unexpected event data contents"]

\* the EventTypeSeparator case of checkEventData
checkSeparatorData(event, order, machine, first) ==
    LET e == isSeparatorEventError(event, order, first)
        s == Len(event.Data.bytes)
        v == ReadUint32(event.Data.bytes, machine)
    IN  IF e.panic THEN [panic |-> TRUE, err |-> Nil]
        ELSE IF e.val THEN [panic |-> FALSE, err |-> Nil]
        ELSE IF s # 4
        THEN [panic |-> FALSE, err |-> "unexpected event data size"]
        ELSE IF v.panic THEN [panic |-> TRUE, err |-> Nil]
        ELSE IF \E k \in DOMAIN separatorEventNormalValues :
                    separatorEventNormalValues[k] = v.val
        THEN [panic |-> FALSE, err |-> Nil]
        ELSE [panic |-> FALSE, err |-> "unexpected event data contents"]

checkEventData(event, order, machine, first) ==
    CASE event.EventType = "Separator" ->
            checkSeparatorData(event, order, machine, first)
      [] event.EventType = "CompactHash" ->
            IF Len(event.Data.bytes) = 4
            THEN [panic |-> FALSE, err |-> Nil]
            ELSE [panic |-> FALSE, err |-> "unexpected event data size"]
      [] event.EventType = "OmitBootDeviceEvents" ->
            IF event.Data.bytes = BootAttemptsOmitted
            THEN [panic |-> FALSE, err |-> Nil]
            ELSE [panic |-> FALSE,
                  err |-> "unexpected event data contents - expected BOOT ATTEMPTS OMITTED"]
      [] event.EventType = "EFIHCRTMEvent" ->
            IF event.Data.bytes = HCRTM
            THEN [panic |-> FALSE, err |-> Nil]
            ELSE [panic |-> FALSE,
                  err |-> "unexpected event data contents - expected HCRTM"]
      [] OTHER -> [panic |-> FALSE, err |-> Nil]

\* A nil slice is <<>> and a non-nil slice b (of any length) is <<b>>.
\* faulty variant: a NoAction event is treated like any other event
isExpectedDigestValueNoZeroCase(digest, t, alg, measuredBytes) ==
    LET h == IF measuredBytes # <<>>
             THEN hash(measuredBytes[1], alg)
             ELSE [panic |-> FALSE, val |-> Nil]
    IN  IF h.panic THEN [panic |-> TRUE, ok |-> FALSE, expected |-> <<>>]
        ELSE IF measuredBytes = <<>> THEN [panic |-> FALSE, ok |-> TRUE, expected |-> <<>>]
        ELSE [panic |-> FALSE, ok |-> digest = h.val, expected |-> <<h.val>>]

\* a result is [panic, ok, expected]
isExpectedDigestValue(digest, t, alg, measuredBytes) ==
    LET h == IF t # "NoAction" /\ measuredBytes # <<>>
             THEN hash(measuredBytes[1], alg)
             ELSE [panic |-> FALSE, val |-> Nil]
        expected ==
            CASE t = "NoAction" ->
                    IF alg \in DOMAIN zeroDigests THEN <<zeroDigests[alg]>> ELSE <<>>
              [] t # "NoAction" /\ measuredBytes # <<>> -> <<h.val>>
              [] OTHER -> <<>>
    IN  IF h.panic THEN [panic |-> TRUE, ok |-> FALSE, expected |-> <<>>]
        ELSE IF expected = <<>> THEN [panic |-> FALSE, ok |-> TRUE, expected |-> <<>>]
        ELSE [panic |-> FALSE, ok |-> digest = expected[1], expected |-> expected]

\* faulty variant: the quirk option alone decides, whatever the event type
efiVariableMeasuredBytesAnyType(event, opts) ==
    IF ~opts.EfiVariableBootQuirk
    THEN <<event.Data.field>>
    ELSE <<event.Data.bytes>>

\* the *EFIVariableEventData case of determineMeasuredBytes
efiVariableMeasuredBytes(event, opts) ==
    IF event.EventType = "EFIVariableBoot" /\ ~opts.EfiVariableBootQuirk
    THEN <<event.Data.field>>
    ELSE <<event.Data.bytes>>

\* a result is [panic, out]
determineMeasuredBytes(event, order, opts, first) ==
    LET t == event.EventType
        d == event.Data
        sep == isSeparatorEventError(event, order, first)
        callsSep == d.variant = "opaque" /\ t = "Separator"
        out ==
            CASE d.variant = "opaque" ->
                    IF t \in {"EventTag", "SCRTMVersion", "PlatformConfigFlags",
                              "TableOfDevices", "NonhostInfo", "OmitBootDeviceEvents"}
                    THEN <<d.bytes>>
                    ELSE IF t = "Separator" /\ ~sep.val THEN <<d.bytes>>
                    ELSE <<>>
              [] d.variant = "ascii" ->
                    IF t \in {"Action", "EFIAction"} THEN <<d.bytes>> ELSE <<>>
              [] d.variant = "efivariable" -> efiVariableMeasuredBytes(event, opts)
              [] d.variant = "efigpt" -> <<d.bytes>>
              [] d.variant = "kernelcmdline" -> <<d.field>>
              [] d.variant = "grubcmd" -> <<d.field>>
              [] OTHER -> <<>>
    IN  IF callsSep /\ sep.panic THEN [panic |-> TRUE, out |-> <<>>]
        ELSE IF out # <<>> THEN [panic |-> FALSE, out |-> out]
        ELSE IF t = "Separator"
        THEN [panic |-> FALSE, out |-> <<PutUint32(order, Uint32(separatorEventErrorValue))>>]
        ELSE [panic |-> FALSE, out |-> <<>>]

UnexpectedEventTypeReportEntry(idx) ==
    [kind |-> "UnexpectedEventType", event |-> idx]
InvalidEventDataReportEntry(idx, err) ==
    [kind |-> "InvalidEventData", event |-> idx, err |-> err]
UnexpectedDigestValueReportEntry(idx, alg, expected) ==
    [kind |-> "UnexpectedDigestValue", event |-> idx, Algorithm |-> alg,
     Expected |-> expected]

\* the entries the range over event.Digests appends, visiting perm[k..]
RECURSIVE digestEntries(_, _, _, _, _)
digestEntries(idx, event, measuredBytes, perm, k) ==
    IF k > Len(perm) THEN [panic |-> FALSE, entries |-> <<>>]
    ELSE LET alg == perm[k]
             r == isExpectedDigestValue(event.Digests[alg], event.EventType, alg,
                                        measuredBytes)
             rest == digestEntries(idx, event, measuredBytes, perm, k + 1)
         IN  IF r.panic \/ rest.panic THEN [panic |-> TRUE, entries |-> <<>>]
             ELSE IF r.ok THEN rest
             ELSE [panic |-> FALSE,
                   entries |-> <<UnexpectedDigestValueReportEntry(idx, alg, r.expected[1])>>
                               \o rest.entries]

\* faulty variant: the range stops after the first algorithm it visits
checkEventDigestsFirstOnly(idx, event, order, opts, first, perm) ==
    LET m == determineMeasuredBytes(event, order, opts, first)
    IN  IF m.panic THEN [panic |-> TRUE, entries |-> <<>>]
        ELSE digestEntries(idx, event, m.out, SubSeq(perm, 1, 1), 1)

\* a result is [panic, entries]: what the call appends to report.Entries
checkEventDigests(idx, event, order, opts, first, perm) ==
    LET m == determineMeasuredBytes(event, order, opts, first)
    IN  IF m.panic THEN [panic |-> TRUE, entries |-> <<>>]
        ELSE digestEntries(idx, event, m.out, perm, 1)

\* The ranges over event.Digests a check of one event runs, each with the
\* order the runtime picked for it: the one-step ranges of checkEventData
\* and of determineMeasuredBytes (run for a Separator event only, Nil
\* otherwise) and the full range of checkEventDigests.
Choices(event) ==
    [dataFirst : IF event.EventType = "Separator"
                 THEN Firsts(DOMAIN event.Digests) ELSE {Nil},
     bytesFirst : IF event.EventType = "Separator" /\ event.Data.variant = "opaque"
                  THEN Firsts(DOMAIN event.Digests) ELSE {Nil},
     perm : Perms(DOMAIN event.Digests)]

\* faulty variant: an event that came with a decode error is not checked further
checkEventStopsOnDecodeError(idx, event, dataErr, spec, order, machine, opts, ch) ==
    LET e1 == IF ~isExpectedEventTypeForIndex(event.EventType, event.PCRIndex, spec)
              THEN <<UnexpectedEventTypeReportEntry(idx)>> ELSE <<>>
        c == checkEventData(event, order, machine, ch.dataFirst)
        e3 == IF c.err # Nil
              THEN <<InvalidEventDataReportEntry(idx, c.err)>> ELSE <<>>
        g == checkEventDigests(idx, event, order, opts, ch.bytesFirst, ch.perm)
    IN  IF dataErr # Nil
        THEN [panic |-> FALSE,
              entries |-> e1 \o <<InvalidEventDataReportEntry(idx, dataErr)>>]
        ELSE IF c.panic \/ g.panic THEN [panic |-> TRUE, entries |-> <<>>]
        ELSE [panic |-> FALSE, entries |-> e1 \o e3 \o g.entries]

\* faulty variant: the digest check runs before the structural check
checkEventDigestsFirst(idx, event, dataErr, spec, order, machine, opts, ch) ==
    LET e1 == IF ~isExpectedEventTypeForIndex(event.EventType, event.PCRIndex, spec)
              THEN <<UnexpectedEventTypeReportEntry(idx)>> ELSE <<>>
        e2 == IF dataErr # Nil
              THEN <<InvalidEventDataReportEntry(idx, dataErr)>> ELSE <<>>
        c == checkEventData(event, order, machine, ch.dataFirst)
        e3 == IF c.err # Nil
              THEN <<InvalidEventDataReportEntry(idx, c.err)>> ELSE <<>>
        g == checkEventDigests(idx, event, order, opts, ch.bytesFirst, ch.perm)
    IN  IF c.panic \/ g.panic THEN [panic |-> TRUE, entries |-> <<>>]
        ELSE [panic |-> FALSE, entries |-> e1 \o e2 \o g.entries \o e3]

\* a result is [panic, entries]: what the call appends to report.Entries
checkEvent(idx, event, dataErr, spec, order, machine, opts, ch) ==
    LET e1 == IF ~isExpectedEventTypeForIndex(event.EventType, event.PCRIndex, spec)
              THEN <<UnexpectedEventTypeReportEntry(idx)>> ELSE <<>>
        e2 == IF dataErr # Nil
              THEN <<InvalidEventDataReportEntry(idx, dataErr)>> ELSE <<>>
        c == checkEventData(event, order, machine, ch.dataFirst)
        e3 == IF c.err # Nil
              THEN <<InvalidEventDataReportEntry(idx, c.err)>> ELSE <<>>
        g == checkEventDigests(idx, event, order, opts, ch.bytesFirst, ch.perm)
    IN  IF c.panic \/ g.panic THEN [panic |-> TRUE, entries |-> <<>>]
        ELSE [panic |-> FALSE, entries |-> e1 \o e2 \o e3 \o g.entries]

(* ----------------------- the decoded event stream --------------------- *)
\* What nextEventInternal can hand to checkLog.  The decoder gives every
\* event of a log a digest for each algorithm of the header (or none at
\* all), allocates every payload buffer (so no payload slice is nil), and
\* picks the payload variant from the event type.

Event(i, t, digests, data) ==
    [PCRIndex |-> i, EventType |-> t, Digests |-> digests, Data |-> data]

\* The decoder reads an IPL payload as bootloader text only with
\* LogOptions.EnableGrub, which CheckLogFrom* set from LogCheckOptions.
Payloads(t, grub) ==
    CASE t = "Separator" ->
            {OpaqueData(b) : b \in {<<>>, <<0, 0, 0, 0>>, <<255, 255, 255, 255>>,
                                    <<0, 0, 0, 1>>, <<0, 0, 0>>}}
      [] t = "CompactHash" -> {OpaqueData(<<0, 0, 0, 0>>), OpaqueData(<<0, 0, 0>>)}
      [] t = "OmitBootDeviceEvents" -> {OpaqueData(BootAttemptsOmitted), OpaqueData(<<66>>)}
      [] t = "EFIHCRTMEvent" -> {OpaqueData(HCRTM), OpaqueData(<<72>>)}
      [] t = "NoAction" ->
            {OpaqueData(<<>>), OpaqueData(<<83>>),
             [variant |-> "specid", bytes |-> <<83, 112>>, field |-> <<>>]}
      [] t \in {"Action", "EFIAction"} -> {AsciiData(<<65>>), OpaqueData(<<65>>)}
      [] t \in {"EFIVariableDriverConfig", "EFIVariableBoot", "EFIVariableAuthority"} ->
            {EFIVariableData(<<9>>, <<>>), EFIVariableData(<<9>>, <<5>>), OpaqueData(<<9>>)}
      [] t = "EFIGPTEvent" -> {EFIGPTData(<<7>>), OpaqueData(<<7>>)}
      [] t = "IPL" ->
            {StubData(<<115>>), OpaqueData(<<3>>)}
            \cup (IF grub
                  THEN {KernelCmdlineData(<<107>>, <<99>>), GrubCmdData(<<103>>, <<99>>)}
                  ELSE {})
      [] OTHER -> {OpaqueData(<<3>>)}

\* The digest a log records for an event under algorithm a, by how it was
\* produced: all-zero, the hash of the payload, of the payload's sub-field
\* or of the encoded error value, or something else.
DigestKinds == {"zero", "bytes", "field", "error", "other"}

DigestOf(kind, data, a, order) ==
    CASE kind = "zero" -> ZeroDigest(a)
      [] kind = "bytes" -> Hashed(data.bytes, a)
      [] kind = "field" -> Hashed(data.field, a)
      [] kind = "error" -> Hashed(PutUint32(order, Uint32(separatorEventErrorValue)), a)
      [] OTHER -> OtherDigest(a, 1)

\* for each algorithm of A (or for none), any kind of K
KindMaps(A, K) == [A -> K] \cup [{} -> K]

\* every event of types T at indices I whose digests are produced as one of
\* KM, as decoded under the call's options
Events(T, I, KM, order) ==
    UNION {{Event(x[2], x[1], [a \in DOMAIN x[3] |-> DigestOf(x[3][a], d, a, order)], d)
            : d \in Payloads(x[1], options.EnableGrub)}
           : x \in T \X I \X KM}

\* a pull that answers with an event: the event and the decode error
Records(E) == [event : E, err : {Nil, "decode error"}]

(* ------------------------------ checkLog ------------------------------ *)

Running == [state |-> "running", report |-> <<>>, err |-> Nil]

\* the state after `report := &LogCheckReport{}`, for a log with the given
\* header and a call with the given options
InitWith(S, O, M, AS, G, Q) ==
    /\ logSpec \in S
    /\ byteOrder \in O
    /\ native \in M
    /\ algs \in AS
    /\ options \in [EnableGrub : G, EfiVariableBootQuirk : Q]
    /\ stream = "open"
    /\ pulled = <<>>
    /\ ranges = <<>>
    /\ report = <<>>
    /\ ret = Running
    /\ second = <<>>
    /\ report2 = <<>>

\* one iteration of the loop of checkLog whose pull answers with an event
PullEvent(rec) ==
    /\ ret.state = "running"
    /\ \E ch \in Choices(rec.event) :
          LET r == checkEvent(Len(pulled) + 1, rec.event, rec.err, logSpec,
                              byteOrder, native, options, ch)
          IN  IF r.panic
              THEN /\ ret' = [ret EXCEPT !.state = "panicked"]
                   /\ UNCHANGED <<pulled, ranges, report>>
              ELSE /\ report' = report \o r.entries
                   /\ pulled' = Append(pulled, rec)
                   /\ ranges' = Append(ranges, ch)
                   /\ UNCHANGED ret
    /\ UNCHANGED <<logSpec, byteOrder, native, algs, options, stream, second, report2>>

\* faulty variant: the partial report is returned along with the error
checkLogReturnKeepsReport(err) ==
    IF err = "EOF"
    THEN [state |-> "returned", report |-> <<report>>, err |-> Nil]
    ELSE [state |-> "returned", report |-> <<report>>, err |-> err]

\* the return of checkLog on a pull that answers with no event and err
checkLogReturn(err) ==
    IF err = "EOF"
    THEN [state |-> "returned", report |-> <<report>>, err |-> Nil]
    ELSE [state |-> "returned", report |-> <<>>, err |-> err]

PullNone(err) ==
    /\ ret.state = "running"
    /\ stream' = err
    /\ ret' = checkLogReturn(err)
    /\ UNCHANGED <<logSpec, byteOrder, native, algs, options, pulled, ranges, report,
                   second, report2>>

StreamErrors == {"EOF", "unexpected EOF"}

(* ---------------- the driver: logs of up to MaxEvents events ---------- *)

DriverTypes == {"PostCode", "OmitBootDeviceEvents"}

DriverRecords ==
    Records(Events(DriverTypes, {0, 4},
                   {[a \in algs |-> k] : k \in {"bytes", "other"}}, byteOrder))

Init == InitWith({SpecPCClient, SpecEFI_2}, {"LE"}, {"LE"},
                 {{AlgorithmSha1}, {AlgorithmSha1, AlgorithmSha256}}, {FALSE}, {FALSE})

Next ==
    \/ Len(pulled) < MaxEvents /\ \E rec \in DriverRecords : PullEvent(rec)
    \/ \E err \in StreamErrors : PullNone(err)

Spec == Init /\ [][Next]_vars

(* ------------- the placement matrix: logs of one event ---------------- *)

PolicyRecords ==
    Records(Events(EventTypes, 0..MaxPCRIndex, {[a \in algs |-> "bytes"]}, byteOrder))

InitPolicy == InitWith(Specs, {"LE"}, {"LE"}, {{AlgorithmSha1}}, {FALSE}, {FALSE})

NextPolicy ==
    \/ pulled = <<>> /\ \E rec \in PolicyRecords : PullEvent(rec)
    \/ \E err \in StreamErrors : PullNone(err)

SpecPolicy == InitPolicy /\ [][NextPolicy]_vars

(* ------------- every kind of event: logs of one event ----------------- *)

EventRecords ==
    Records(Events(EventTypes, {1}, KindMaps(algs, DigestKinds), byteOrder))

InitEvents ==
    InitWith({SpecEFI_2}, {"LE", "BE"}, {"LE", "BE"},
             {{AlgorithmSha1}, {AlgorithmSha256, AlgorithmSha384}, {AlgorithmSha512}},
             {TRUE}, BOOLEAN)

NextEvents ==
    \/ pulled = <<>> /\ \E rec \in EventRecords : PullEvent(rec)
    \/ \E err \in StreamErrors : PullNone(err)

SpecEvents == InitEvents /\ [][NextEvents]_vars

(* ------- two calls of checkLog: the same log, or one digest changed --- *)

\* one iteration of the loop in each of two calls, the first given rec and
\* the second rec2
PullEventTwice(rec, rec2) ==
    /\ ret.state = "running"
    /\ \E ch \in Choices(rec.event), ch2 \in Choices(rec2.event) :
          LET r == checkEvent(Len(pulled) + 1, rec.event, rec.err, logSpec,
                              byteOrder, native, options, ch)
              r2 == checkEvent(Len(second) + 1, rec2.event, rec2.err, logSpec,
                               byteOrder, native, options, ch2)
          IN  IF r.panic \/ r2.panic
              THEN /\ ret' = [ret EXCEPT !.state = "panicked"]
                   /\ UNCHANGED <<pulled, report, second, report2>>
              ELSE /\ report' = report \o r.entries
                   /\ pulled' = Append(pulled, rec)
                   /\ report2' = report2 \o r2.entries
                   /\ second' = Append(second, rec2)
                   /\ UNCHANGED ret
    /\ UNCHANGED <<logSpec, byteOrder, native, algs, options, stream, ranges>>

\* the values a recorded digest can be changed to
TamperValues(data, a, order) ==
    {DigestOf(k, data, a, order) : k \in DigestKinds} \cup {OtherDigest(a, 2)}

\* rec with exactly one recorded digest changed to another value
Tampered(rec, order) ==
    UNION {{[rec EXCEPT !.event.Digests[a] = v]
            : v \in TamperValues(rec.event.Data, a, order) \ {rec.event.Digests[a]}}
           : a \in DOMAIN rec.event.Digests}

UniformMaps(A, K) == {[a \in A |-> k] : k \in K}

\* a PCR index at which every event type is permitted
UnconstrainedIndex == MaxPCRIndex

\* the events both calls are given unchanged
SameRecords ==
    [event : Events({"PostCode", "NoAction"}, {UnconstrainedIndex},
                    UniformMaps(algs, {"zero"}), byteOrder),
     err : {Nil}]

\* the events of which the second call may be given a changed copy
ChangedRecords ==
    [event : Events({"PostCode", "NoAction", "Separator", "EFIVariableBoot", "Action"},
                    {UnconstrainedIndex}, UniformMaps(algs, {"zero", "bytes", "field", "error"}),
                    byteOrder),
     err : {Nil}]

InitTwice ==
    InitWith({SpecEFI_2}, {"LE"}, {"LE"},
             {{AlgorithmSha1}, {AlgorithmSha1, AlgorithmSha256}}, {FALSE}, {FALSE})

NextTamper ==
    \/ Len(pulled) < MaxEvents /\ \E rec \in SameRecords : PullEventTwice(rec, rec)
    \/ /\ Len(pulled) < MaxEvents
       /\ second = pulled
       /\ \E rec \in ChangedRecords :
             \E rec2 \in Tampered(rec, byteOrder) : PullEventTwice(rec, rec2)
    \/ \E err \in StreamErrors : PullNone(err)

SpecTamper == InitTwice /\ [][NextTamper]_vars

\* the events of a log that is checked twice
RerunRecords ==
    [event : Events({"NoAction", "Separator"}, {0}, KindMaps(algs, {"bytes", "error"}),
                    byteOrder),
     err : {Nil}]

NextRerun ==
    \/ Len(pulled) < MaxEvents /\ \E rec \in RerunRecords : PullEventTwice(rec, rec)
    \/ \E err \in StreamErrors : PullNone(err)

SpecRerun == InitTwice /\ [][NextRerun]_vars

(* ------------------------------ the claims ---------------------------- *)

\* the entries of a report that reference the k-th event of the log
EntriesOf(rep, k) == SelectSeq(rep, LAMBDA e : e.event = k)

Kinds(es) == {es[j].kind : j \in DOMAIN es}

\* C1: the outcome of checkLog is decided only by the pull that returns no
\* event: on clean end-of-stream the call succeeds and returns the report
\* accumulated so far; on any other error it returns that error and no
\* report, whatever was accumulated.
C1_OutcomeDecidedByLastPull ==
    ret.state = "returned" =>
        IF stream = "EOF"
        THEN ret.err = Nil /\ ret.report = <<report>>
        ELSE ret.err = stream /\ ret.err # Nil /\ ret.report = <<>>

\* a failed call that had already accumulated entries for two events
C1_Witness ==
    /\ ret.state = "returned"
    /\ stream = "unexpected EOF"
    /\ Len(pulled) = 2
    /\ EntriesOf(report, 1) # <<>>
    /\ EntriesOf(report, 2) # <<>>

\* C2: an event pulled together with a decode error is still checked for
\* placement, structure and digests, gets exactly one more InvalidEventData
\* entry, which carries the decode error, and does not end the call.
C2_DecodeErrorKeepsChecking ==
    /\ ret.state # "panicked"
    /\ ret.err # "decode error"
    /\ \A k \in DOMAIN pulled :
          LET ev == pulled[k].event
              es == EntriesOf(report, k)
              structural == checkEventData(ev, byteOrder, native, Nil).err
              measured == determineMeasuredBytes(ev, byteOrder, options, Nil).out
              carrying == {j \in DOMAIN es : /\ es[j].kind = "InvalidEventData"
                                             /\ es[j].err = "decode error"}
              others == {j \in DOMAIN es : /\ es[j].kind = "InvalidEventData"
                                           /\ es[j].err # "decode error"}
          IN  /\ Cardinality(carrying) = (IF pulled[k].err = Nil THEN 0 ELSE 1)
              /\ ("UnexpectedEventType" \in Kinds(es))
                    <=> ~isExpectedEventTypeForIndex(ev.EventType, ev.PCRIndex, logSpec)
              /\ Cardinality(others) = (IF structural = Nil THEN 0 ELSE 1)
              /\ \A j \in others : es[j].err = structural
              /\ \A a \in DOMAIN ev.Digests :
                    (\E j \in DOMAIN es : /\ es[j].kind = "UnexpectedDigestValue"
                                          /\ es[j].Algorithm = a)
                    <=> (measured # <<>> /\ ev.Digests[a] # Hashed(measured[1], a))

\* a successful call whose first event came with a decode error, failed all
\* three checks, and was followed by another checked event
C2_Witness ==
    /\ ret.state = "returned"
    /\ ret.err = Nil
    /\ Len(pulled) = 2
    /\ pulled[1].err = "decode error"
    /\ Kinds(EntriesOf(report, 1))
          = {"UnexpectedEventType", "InvalidEventData", "UnexpectedDigestValue"}
    /\ Len(SelectSeq(EntriesOf(report, 1), LAMBDA e : e.kind = "InvalidEventData")) = 2
    /\ EntriesOf(report, 2) # <<>>

IsPrefix(s, t) == Len(s) <= Len(t) /\ SubSeq(t, 1, Len(s)) = s

KindRank(kind) ==
    CASE kind = "UnexpectedEventType" -> 1
      [] kind = "InvalidEventData" -> 2
      [] OTHER -> 3

Ordered(rep) ==
    \A j, k \in DOMAIN rep :
        j < k => \/ rep[j].event < rep[k].event
                 \/ /\ rep[j].event = rep[k].event
                    /\ KindRank(rep[j].kind) <= KindRank(rep[k].kind)

\* C9: every step only appends to the report, entries of an earlier event
\* precede those of a later one, and the entries of one event come in the
\* order UnexpectedEventType, InvalidEventData, UnexpectedDigestValue.
C9_ReportOrder == [][IsPrefix(report, report') /\ Ordered(report')]_vars

\* a report with entries of all three kinds for the first event, followed
\* by entries for the second
C9_Witness ==
    /\ Len(pulled) = 2
    /\ Kinds(EntriesOf(report, 1))
          = {"UnexpectedEventType", "InvalidEventData", "UnexpectedDigestValue"}
    /\ Len(EntriesOf(report, 2)) >= 2

\* the table of permitted PCR indices 0..7 per event type
PermittedIndices(t, spec) ==
    LET older == spec = SpecPCClient
    IN  CASE t \in {"PostCode", "SCRTMContents", "SCRTMVersion", "NonhostCode",
                    "NonhostInfo", "EFIHCRTMEvent"} -> {0}
          [] t = "NoAction" -> {0, 6}
          [] t \in {"Action", "EFIAction"} -> 1..6
          [] t = "EventTag" -> IF older THEN 0..4 ELSE {}
          [] t \in {"CPUMicrocode", "PlatformConfigFlags", "TableOfDevices",
                    "NonhostConfig", "EFIVariableBoot", "EFIHandoffTables"} -> {1}
          [] t = "CompactHash" -> 4..7
          [] t = "IPL" -> IF older THEN {4} ELSE {}
          [] t = "IPLPartitionData" -> IF older THEN {5} ELSE {}
          [] t = "OmitBootDeviceEvents" -> {4}
          [] t = "EFIVariableDriverConfig" -> {1, 3, 5, 7}
          [] t = "EFIBootServicesApplication" -> {2, 4}
          [] t \in {"EFIBootServicesDriver", "EFIRuntimeServicesDriver"} -> {0, 2}
          [] t = "EFIGPTEvent" -> {5}
          [] t = "EFIPlatformFirmwareBlob" -> {0, 2, 4}
          [] t = "EFIVariableAuthority" -> {7}
          [] OTHER -> 0..7

\* C3: for every event type, PCR index and spec version the placement check
\* agrees with the table (any index above 7 is valid), and an event gets an
\* UnexpectedEventType entry exactly when the table says invalid.
C3_PlacementMatrix ==
    \A k \in DOMAIN pulled :
        LET ev == pulled[k].event
            valid == ev.PCRIndex > 7 \/ ev.PCRIndex \in PermittedIndices(ev.EventType, logSpec)
            es == EntriesOf(report, k)
        IN  /\ isExpectedEventTypeForIndex(ev.EventType, ev.PCRIndex, logSpec) = valid
            /\ Len(SelectSeq(es, LAMBDA e : e.kind = "UnexpectedEventType"))
                  = (IF valid THEN 0 ELSE 1)

\* an IPL event at index 4 of a log of the newer profile was reported
C3_Witness ==
    /\ Len(pulled) = 1
    /\ pulled[1].event.EventType = "IPL"
    /\ pulled[1].event.PCRIndex = 4
    /\ logSpec = SpecEFI_2
    /\ "UnexpectedEventType" \in Kinds(EntriesOf(report, 1))

\* the UnexpectedDigestValue entries among es that name algorithm a
DigestEntries(es, a) ==
    SelectSeq(es, LAMBDA e : e.kind = "UnexpectedDigestValue" /\ e.Algorithm = a)

\* every algorithm of the event has one entry expecting want(a) if its
\* recorded digest differs from want(a) and none otherwise
ComparedAgainst(ev, es, want(_)) ==
    /\ \A a \in DOMAIN ev.Digests :
          LET ds == DigestEntries(es, a)
          IN  /\ Len(ds) = (IF ev.Digests[a] = want(a) THEN 0 ELSE 1)
              /\ \A j \in DOMAIN ds : ds[j].Expected = want(a)
    /\ \A j \in DOMAIN es :
          es[j].kind = "UnexpectedDigestValue" => es[j].Algorithm \in DOMAIN ev.Digests

\* C4: for a NoAction event, whatever its payload, each algorithm's expected
\* digest is the all-zero digest: one UnexpectedDigestValue entry, expecting
\* the zero digest, for each algorithm whose recorded digest is not all-zero
\* and none for the others.
C4_NoActionExpectsZero ==
    \A k \in DOMAIN pulled :
        pulled[k].event.EventType = "NoAction" =>
            ComparedAgainst(pulled[k].event, EntriesOf(report, k), ZeroDigest)

\* a NoAction event with a non-empty payload, one all-zero digest and one
\* digest that is the hash of the payload: one entry
C4_Witness ==
    /\ Len(pulled) = 1
    /\ LET ev == pulled[1].event
       IN  /\ ev.EventType = "NoAction"
           /\ ev.Data.bytes # <<>>
           /\ DOMAIN ev.Digests = {AlgorithmSha256, AlgorithmSha384}
           /\ ev.Digests[AlgorithmSha256] = ZeroDigest(AlgorithmSha256)
           /\ ev.Digests[AlgorithmSha384] = Hashed(ev.Data.bytes, AlgorithmSha384)
    /\ DigestEntries(report, AlgorithmSha256) = <<>>
    /\ Len(DigestEntries(report, AlgorithmSha384)) = 1
    /\ DigestEntries(report, AlgorithmSha384)[1].Expected = ZeroDigest(AlgorithmSha384)

ErrorValueHash(a) == Hashed(PutUint32(byteOrder, Uint32(separatorEventErrorValue)), a)

\* C5: a Separator event whose recorded digest for the algorithm examined by
\* error detection is the hash of the encoded value 1 gets no InvalidEventData
\* from the structural check, whatever its payload, and every digest of the
\* event is compared against the hash of the encoded value 1, also when the
\* event carries several algorithms.
C5_ErrorSeparator ==
    \A k \in DOMAIN pulled :
        LET ev == pulled[k].event
            examined == ranges[k].dataFirst
            es == EntriesOf(report, k)
        IN  (/\ ev.EventType = "Separator"
             /\ examined # Nil
             /\ ev.Digests[examined] = ErrorValueHash(examined))
            => /\ \A j \in DOMAIN es :
                      es[j].kind = "InvalidEventData" => es[j].err = pulled[k].err
               /\ ComparedAgainst(ev, es, ErrorValueHash)

\* the input whose hash an event carrying an EFI variable record is checked
\* against
EFIVariableInput(ev) ==
    IF ev.EventType = "EFIVariableBoot" /\ ~options.EfiVariableBootQuirk
    THEN ev.Data.field
    ELSE ev.Data.bytes

\* C6: an EFIVariableBoot event carrying an EFI variable record is checked
\* against the hash of the value sub-field with the boot quirk off and of the
\* full record with it on, also when the value is empty; every other event
\* type carrying such a record is checked against the hash of the full
\* record under both settings.  A digest that differs yields an entry.
C6_EFIVariableInput ==
    \A k \in DOMAIN pulled :
        LET ev == pulled[k].event
            want(a) == Hashed(EFIVariableInput(ev), a)
        IN  ev.Data.variant = "efivariable" =>
                ComparedAgainst(ev, EntriesOf(report, k), want)

\* an EFIVariableBoot event with an empty value whose digest is the hash of
\* the full record, checked with the quirk off: reported
C6_Witness ==
    /\ Len(pulled) = 1
    /\ ~options.EfiVariableBootQuirk
    /\ LET ev == pulled[1].event
       IN  /\ ev.EventType = "EFIVariableBoot"
           /\ ev.Data.variant = "efivariable"
           /\ ev.Data.field = <<>>
           /\ DOMAIN ev.Digests = {AlgorithmSha1}
           /\ ev.Digests[AlgorithmSha1] = Hashed(ev.Data.bytes, AlgorithmSha1)
    /\ Len(EntriesOf(report, 1)) = 1
    /\ report[1].Expected = Hashed(<<>>, AlgorithmSha1)

\* C10: no run of checkLog over events with digests of the four supported
\* algorithms panics: separator-error detection only sees Separator events,
\* the hasher only algorithms of the event, and the separator payload is
\* read only once its length is known to be 4.
C10_NoPanic == ret.state # "panicked"

\* a Separator event with no digests and an empty payload was checked and
\* reported for its size, and the call returned
C10_Witness ==
    /\ ret.state = "returned"
    /\ Len(pulled) = 1
    /\ pulled[1].event.EventType = "Separator"
    /\ DOMAIN pulled[1].event.Digests = {}
    /\ pulled[1].event.Data.bytes = <<>>
    /\ pulled[1].err = Nil
    /\ Len(report) = 1
    /\ report[1].kind = "InvalidEventData"
    /\ report[1].err = "unexpected event data size"

\* C7: two calls of checkLog over the same decoded events, spec, byte order
\* and options produce identical reports, also for events with digests of
\* more than one algorithm.
C7_Idempotent == second = pulled => report2 = report

\* the second call's log differs from the first's in the digest of
\* algorithm a of event k, and in nothing else
ChangedAt(k, a) ==
    /\ k \in DOMAIN pulled
    /\ a \in DOMAIN pulled[k].event.Digests
    /\ second[k].event.Digests[a] # pulled[k].event.Digests[a]

\* the second call reported exactly one entry, an UnexpectedDigestValue for
\* algorithm a of event k
OnlyDigestEntry(k, a) ==
    /\ Len(report2) = 1
    /\ report2[1].kind = "UnexpectedDigestValue"
    /\ report2[1].event = k
    /\ report2[1].Algorithm = a

CleanThenChanged ==
    /\ ret.state = "returned"
    /\ stream = "EOF"
    /\ report = <<>>
    /\ second # pulled

\* C8: if a log checks to an empty report, the log with exactly one recorded
\* digest of one event changed checks to a report of exactly one entry, an
\* UnexpectedDigestValue for that event and algorithm, for every event type
\* and payload variant of the changed event.
C8_OneTamperOneEntry ==
    CleanThenChanged =>
        \A k \in DOMAIN pulled : \A a \in algs : ChangedAt(k, a) => OnlyDigestEntry(k, a)

\* the event types and payload variants whose digests have an expectation
\* that does not depend on the digests themselves
Verifiable(ev) ==
    \/ ev.EventType = "NoAction"
    \/ /\ ev.Data.variant = "opaque"
       /\ ev.EventType \in {"EventTag", "SCRTMVersion", "PlatformConfigFlags",
                            "TableOfDevices", "NonhostInfo", "OmitBootDeviceEvents"}
    \/ ev.Data.variant = "ascii" /\ ev.EventType \in {"Action", "EFIAction"}
    \/ /\ ev.Data.variant \in {"efivariable", "efigpt", "kernelcmdline", "grubcmd"}
       /\ ev.EventType # "Separator"

\* C8 as amended: the changed log checks to exactly that one entry when the
\* changed event is a NoAction event or a non-Separator event whose type and
\* payload variant have measured bytes; when it is another non-Separator
\* event the changed log checks to an empty report as well.
C8_OneTamperOneEntryIfVerifiable ==
    CleanThenChanged =>
        \A k \in DOMAIN pulled : \A a \in algs :
            ChangedAt(k, a) =>
                IF Verifiable(pulled[k].event) THEN OnlyDigestEntry(k, a)
                ELSE pulled[k].event.EventType # "Separator" => report2 = <<>>

\* a clean log of two events whose second event, an EFIVariableBoot event,
\* had its second digest changed: the one entry
C8_Witness ==
    /\ CleanThenChanged
    /\ Len(pulled) = 2
    /\ pulled[2].event.EventType = "EFIVariableBoot"
    /\ pulled[2].event.Data.variant = "efivariable"
    /\ ChangedAt(2, AlgorithmSha256)
    /\ OnlyDigestEntry(2, AlgorithmSha256)

====
